---- MODULE Spec2Model ----
(***************************************************************************)
(* Model of the contract-reviewer analysis pipeline                        *)
(* (src/app/api/analyze/route.ts, lines 1-452): the token estimator, the   *)
(* chunker, getSummaryForChunk's retry loop, and the POST handler with its *)
(* event stream and ping timer.                                            *)
(*                                                                         *)
(* Texts are sequences of one-character strings over a four character      *)
(* alphabet: a letter, a sentence terminator, a blank and a newline.       *)
(***************************************************************************)
EXTENDS Integers, Sequences, FiniteSets, TLC

----------------------------------------------------------------------------
(* Bounds of the model *)

\* longest input text of the chunker specification
MaxLen == 5

\* chunker ceiling, in tokens (15000 in the source, scaled to the short texts)
MAX_CHUNK_TOKENS == 1

\* condensation threshold, in tokens (60000 in the source, scaled likewise)
CONDENSE_TOKENS == 2

\* most paragraphs (and so chunks) of a submitted document
MaxChunks == 2

\* most ticks of the ping timer observed in one request
MaxPings == 1

\* most records of a response body read by the client
MaxRecords == 2

\* most chunks of an uploaded document
MaxUploadChunks == 3

\* attemptAnalysis: const maxAttempts = 3
maxAttempts == 3

\* most chunks of a completion stream
MaxTokens == 2

----------------------------------------------------------------------------
(* Characters and texts *)

NL == "\n"

Alphabet == {"a", ".", " ", NL}

Texts == UNION {[1..n -> Alphabet] : n \in 0..MaxLen}

\* \s of the regular expressions, and what String.prototype.trim strips
IsWs(c) == c \in {" ", NL}

\* the class [.!?]
IsTerm(c) == c \in {".", "!", "?"}

MinOf(S) == CHOOSE x \in S : \A y \in S : x <= y

MaxOf(S) == CHOOSE x \in S : \A y \in S : x >= y

\* String.prototype.trim
trim(s) ==
  LET keep == {i \in 1..Len(s) : ~IsWs(s[i])}
  IN  IF keep = {} THEN <<>> ELSE SubSeq(s, MinOf(keep), MaxOf(keep))

\* Array.prototype.join
RECURSIVE join(_, _)
join(parts, sep) ==
  IF parts = <<>> THEN <<>>
  ELSE IF Len(parts) = 1 THEN parts[1]
  ELSE parts[1] \o sep \o join(Tail(parts), sep)

BlankLine == <<NL, NL>>

----------------------------------------------------------------------------
(* estimateTokens: Math.ceil(text.length / 4) *)

estimateTokensFloor(t) == Len(t) \div 4

estimateTokens(t) ==
  IF Len(t) % 4 = 0 THEN Len(t) \div 4 ELSE Len(t) \div 4 + 1

----------------------------------------------------------------------------
(* splitIntoChunks *)

\* Where the match of /\n\s*\n/ that starts at position i ends; 0 when there
\* is no match at i.  \s* is greedy, so the match runs to the last newline of
\* the white-space run that follows position i.
SepEnd(t, i) ==
  IF t[i] # NL THEN 0
  ELSE LET stops  == {j \in (i+1)..Len(t) : ~IsWs(t[j])}
           runEnd == IF stops = {} THEN Len(t) ELSE MinOf(stops) - 1
           nls    == {j \in (i+1)..runEnd : t[j] = NL}
       IN  IF nls = {} THEN 0 ELSE MaxOf(nls)

\* text.split(/\n\s*\n/): s is where the current piece starts, i the scan
\* position.  Empty pieces are kept, as String.prototype.split keeps them.
RECURSIVE SplitFrom(_, _, _)
SplitFrom(t, s, i) ==
  IF i > Len(t) THEN << SubSeq(t, s, Len(t)) >>
  ELSE LET e == SepEnd(t, i)
       IN  IF e > 0
           THEN << SubSeq(t, s, i - 1) >> \o SplitFrom(t, e + 1, e + 1)
           ELSE SplitFrom(t, s, i + 1)

Paragraphs(t) == SplitFrom(t, 1, 1)

\* paragraph.match(/[^.!?]+[.!?]+/g), searching from position i: the
\* terminators before the first other character are skipped, and a final run
\* of characters that no terminator follows matches nothing.
RECURSIVE MatchFrom(_, _)
MatchFrom(p, i) ==
  LET starts == {k \in i..Len(p) : ~IsTerm(p[k])}
  IN  IF starts = {} THEN <<>>
      ELSE LET k     == MinOf(starts)
               terms == {m \in k..Len(p) : IsTerm(p[m])}
           IN  IF terms = {} THEN <<>>
               ELSE LET m     == MinOf(terms)
                        after == {q \in m..Len(p) : ~IsTerm(p[q])}
                        q     == IF after = {} THEN Len(p) ELSE MinOf(after) - 1
                    IN  << SubSeq(p, k, q) >> \o MatchFrom(p, q + 1)

\* paragraph.match(...) || [paragraph]
Sentences(p) ==
  LET ms == MatchFrom(p, 1)
  IN  IF ms = <<>> THEN << p >> ELSE ms

\* line 78-83: one sentence of an oversized paragraph
AddSentence(st, sentence) ==
  IF estimateTokens(st.currentChunk \o sentence) > MAX_CHUNK_TOKENS
       /\ Len(st.currentChunk) > 0
  THEN [chunks |-> Append(st.chunks, trim(st.currentChunk)),
        currentChunk |-> sentence]
  ELSE [chunks |-> st.chunks, currentChunk |-> st.currentChunk \o sentence]

\* the for loop of line 77; each step's result is bound as a value before it
\* is passed on, so that TLC evaluates it once
RECURSIVE AddSentences(_, _)
AddSentences(st, ss) ==
  IF ss = <<>> THEN st
  ELSE CHOOSE out \in {AddSentences(st1, rest) :
                          st1 \in {AddSentence(st, Head(ss))},
                          rest \in {Tail(ss)}} : TRUE

\* line 74-92: one paragraph
AddParagraph(st, paragraph) ==
  IF estimateTokens(paragraph) > MAX_CHUNK_TOKENS
  THEN AddSentences(st, Sentences(paragraph))
  ELSE IF estimateTokens(st.currentChunk \o paragraph) > MAX_CHUNK_TOKENS
            /\ Len(st.currentChunk) > 0
       THEN [chunks |-> Append(st.chunks, trim(st.currentChunk)),
             currentChunk |-> paragraph]
       ELSE [chunks |-> st.chunks,
             currentChunk |-> st.currentChunk
                 \o (IF st.currentChunk # <<>> THEN BlankLine ELSE <<>>)
                 \o paragraph]

\* the for loop of line 73, written as AddSentences is
RECURSIVE AddParagraphs(_, _)
AddParagraphs(st, ps) ==
  IF ps = <<>> THEN st
  ELSE CHOOSE out \in {AddParagraphs(st1, rest) :
                          st1 \in {AddParagraph(st, Head(ps))},
                          rest \in {Tail(ps)}} : TRUE

splitIntoChunks(t) ==
  LET st == AddParagraphs([chunks |-> <<>>, currentChunk |-> <<>>],
                          Paragraphs(t))
  IN  IF Len(st.currentChunk) > 0
      THEN Append(st.chunks, trim(st.currentChunk))
      ELSE st.chunks

----------------------------------------------------------------------------
(* The chunker specification: a text is drawn, estimateTokens and          *)
(* splitIntoChunks are applied to it, and the chunks are joined with the   *)
(* blank-line separator and split again.                                   *)

VARIABLES text, cpc, tokens, result, resplit

cvars == <<text, cpc, tokens, result, resplit>>

\* the state of the analyze handler (described with its actions below)
VARIABLES
  req,                \* the request: session, credential, fileData
  pc,                 \* where the handler (then its background task) stands
  cont,               \* where it goes on once the awaited write is settled
  response,           \* "none", or "stream" once the response is returned
  stream,             \* the records handed to writer.write, in order
  pingInterval,       \* whether the ping timer is running
  pings,              \* ticks of the ping timer so far
  closeCalls,         \* invocations of writer.close
  chunks, i, summaries,
  attempt,            \* getSummaryForChunk's loop variable
  delays,             \* the delays of the current getSummaryForChunk call
  outcomes,           \* how each completion call of that call ended
  reply,              \* the content of the last successful completion call
  ret,                \* the value getSummaryForChunk returned
  error,              \* the error being thrown
  combinedSummary, finalSummary, summaryChunks, secondarySummaries,
  saved,              \* what became of the database save
  analysed,           \* what each final analysis call was answered with
  lastWait,           \* the wait of the chunk loop's catch before the retry
                      \* that is due, in ms; 0 when none is due
  condenseCalls,      \* the condensation calls issued so far for the part
                      \* being condensed, counted up to retries + 1
  pacing              \* the pacing delay taken before the completion call
                      \* that is pending, in ms; 0 when none was taken

hvars == <<req, pc, cont, response, stream, pingInterval, pings, closeCalls,
           chunks, i, summaries, attempt, delays, outcomes, reply, ret, error,
           combinedSummary, finalSummary, summaryChunks, secondarySummaries,
           saved, analysed, lastWait, condenseCalls, pacing>>

\* the state of the client's processStream (described with its actions below)
VARIABLES
  wire,               \* the bytes of the response body
  fed,                \* how many of them reader.read has yielded
  buffer,             \* the text kept from one read to the next
  parsed,             \* the records parsed so far, in order
  kpc                 \* "idle", "reading", or "done" once the body has ended

kvars == <<wire, fed, buffer, parsed, kpc>>

\* the state of the upload handler (described with its actions below)
VARIABLES
  upPc,               \* where the upload handler is
  chunkCalls,         \* for each chunk, how its analysis call stands
  upStatus,           \* the status of the response sent, 0 while none is
  upBody,             \* what the response carries: "analysis" or "error"
  contractCreated     \* whether prisma.contract.create has stored the record

uvars == <<upPc, chunkCalls, upStatus, upBody, contractCreated>>

\* the state of the DELETE contract handler (described with its actions)
VARIABLES
  delPc,              \* where the DELETE handler is
  delSession,         \* the session user's id (sub), "none" without a session
  delId,              \* params.id
  contracts,          \* the contract table: id |-> userId
  delStatus,          \* the status of the response sent, 0 while none is
  delThrown           \* whether a database call has thrown

dvars == <<delPc, delSession, delId, contracts, delStatus, delThrown>>

\* the state of the client's attemptAnalysis (described with its actions)
VARIABLES
  atPc,               \* where attemptAnalysis is
  attemptNo,          \* its parameter attempt
  requests,           \* how many requests fetch has sent
  waits,              \* the waits taken between attempts, in ms
  attemptLog          \* how each attempt ended

avars == <<atPc, attemptNo, requests, waits, attemptLog>>

\* the state of OpenAIStream's start (described with its actions below)
VARIABLES
  osPc,               \* where start is
  source,             \* the content of each chunk the response yields
  srcPos,             \* how many chunks the loop has taken
  completion,         \* the variable completion
  controller,         \* the controller: "readable", "errored" or "closed"
  enqueued,           \* what was enqueued, in order
  called,             \* the callbacks invoked, in order, with their argument
  closeLog            \* the state the controller was in at each close

svars == <<osPc, source, srcPos, completion, controller, enqueued, called,
           closeLog>>

vars == <<cvars, hvars, kvars, uvars, dvars, avars, svars>>

\* the chunker left alone, as it is in the handler's specification
IdleChunk ==
  /\ text = <<>>
  /\ cpc = "idle"
  /\ tokens = 0
  /\ result = <<>>
  /\ resplit = <<>>

TextDrawn ==
  /\ text \in Texts
  /\ cpc = "input"
  /\ tokens = 0
  /\ result = <<>>
  /\ resplit = <<>>

CallEstimateTokens ==
  /\ UNCHANGED <<hvars, kvars, uvars, dvars, avars, svars>>
  /\ cpc = "input"
  /\ tokens' = estimateTokens(text)
  /\ cpc' = "estimated"
  /\ UNCHANGED <<text, result, resplit>>

CallSplitIntoChunks ==
  /\ UNCHANGED <<hvars, kvars, uvars, dvars, avars, svars>>
  /\ cpc = "estimated"
  /\ result' = splitIntoChunks(text)
  /\ cpc' = "split"
  /\ UNCHANGED <<text, tokens, resplit>>

CallResplit ==
  /\ UNCHANGED <<hvars, kvars, uvars, dvars, avars, svars>>
  /\ cpc = "split"
  /\ resplit' = splitIntoChunks(join(result, BlankLine))
  /\ cpc' = "resplit"
  /\ UNCHANGED <<text, tokens, result>>

NextChunk == CallEstimateTokens \/ CallSplitIntoChunks \/ CallResplit

----------------------------------------------------------------------------
(* Properties of the estimator and the chunker, under SpecChunk *)

Split == cpc \in {"split", "resplit"}

\* texts of length n that differ from one another in their characters only
SameLengthTexts(n) == [1..n -> {"a", " "}]

\* C9: estimateTokens(text) is ceil(length(text) / 4), the least n with
\* 4n >= length (0 for the empty text), and every text of the same length
\* gets the same estimate.
C9_EstimateIsCeilOfLength ==
  cpc # "input" =>
    /\ 4 * tokens >= Len(text)
    /\ 4 * (tokens - 1) < Len(text)
    /\ (text = <<>> => tokens = 0)
    /\ \A t2 \in SameLengthTexts(Len(text)) : estimateTokens(t2) = tokens

\* C9 witness: an estimate was taken of a text whose length is no multiple
\* of four and that holds blanks as well as letters.
C9_Witness ==
  /\ cpc = "estimated"
  /\ Len(text) = 5
  /\ tokens = 2
  /\ \E n \in 1..Len(text) : IsWs(text[n])
  /\ \E n \in 1..Len(text) : ~IsWs(text[n])

\* a chunk that is one paragraph holding one sentence (or no terminated
\* sentence at all): the documented unsplittable unit
IsSingleUnit(c) == Len(Paragraphs(c)) = 1 /\ Len(Sentences(c)) = 1

\* C5: every chunk's estimate is at most MAX_CHUNK_TOKENS, unless the chunk
\* is one single sentence, or one paragraph without a terminator, that alone
\* exceeds the ceiling.
C5_ChunksWithinCeiling ==
  Split => \A k \in 1..Len(result) :
             \/ estimateTokens(result[k]) <= MAX_CHUNK_TOKENS
             \/ IsSingleUnit(result[k])

\* C6: splitIntoChunks never returns an empty string as a chunk.
C6_NoEmptyChunk ==
  Split => \A k \in 1..Len(result) : result[k] # <<>>

StripWs(t) == SelectSeq(t, LAMBDA c : ~IsWs(c))

\* C7: the chunks, concatenated in output order with white space
\* disregarded, equal the text with white space disregarded.
C7_ChunksReconstituteText ==
  Split => StripWs(join(result, <<>>)) = StripWs(text)

\* C8: joining the chunks with the blank-line separator and splitting the
\* result again returns exactly the same chunks.
C8_ResplitRoundTrip ==
  cpc = "resplit" => resplit = result

----------------------------------------------------------------------------
(* The analyze handler: POST of src/app/api/analyze/route.ts, lines        *)
(* 157-452, with getSummaryForChunk (lines 107-147) inlined step by step.  *)
(*                                                                         *)
(* The event stream is a TransformStream with the default strategies: a    *)
(* write to its writable side is settled only once the readable side is    *)
(* being read, and the readable side is read by the caller from the moment *)
(* the handler has returned the response that carries it.  The caller is   *)
(* taken to keep reading.                                                  *)


\* retries = 3, the default of getSummaryForChunk's parameter
retries == 3

\* a paragraph of exactly MAX_CHUNK_TOKENS tokens
Para(c) == [k \in 1..(4 * MAX_CHUNK_TOKENS) |-> c]

\* a document of n such paragraphs
RECURSIVE Doc(_)
Doc(n) == IF n = 0 THEN <<>>
          ELSE IF n = 1 THEN Para("a")
          ELSE Doc(n - 1) \o BlankLine \o Para("a")

Documents == {Doc(n) : n \in 0..MaxChunks} \cup {<<" ">>}

Requests == [session : BOOLEAN, apiKey : BOOLEAN,
             type : {"pdf", "text"}, content : Documents]

\* what a completion call answers with: response.choices[0].message.content
Replies == {<<>>, Para("s")}

\* how a completion call fails: the error message holds 'TPM' for a
\* rate-limit failure only; a timeout is the abort of the request; a fatal
\* failure is one that no retry can mend (bad request, authentication)
Failures == {"transient", "ratelimit", "timeout", "fatal"}

IsTPM(e) == e = "ratelimit"

\* the source draws no such distinction: it looks for 'TPM' and nothing else
IsFatal(e) == e = "fatal"

Msg(type, message, progress, summary) ==
  [type |-> type, message |-> message, progress |-> progress,
   summary |-> summary]

Status(m)      == Msg("status", m, <<>>, <<>>)
\* line 258 with i in the place of i + 1
ProgressFromZero(k, n) ==
  Msg("progress", <<"Processed chunk", k, n>>, <<(k - 1) * 100, n>>, <<>>)

Progress(k, n) == Msg("progress", <<"Processed chunk", k, n>>, <<k * 100, n>>, <<>>)
\* lines 366-370 without the summary field
CompleteBare(sum) == Msg("complete", <<>>, <<>>, <<>>)

Complete(sum)  == Msg("complete", <<>>, <<>>, sum)
ErrorMsg(m)    == Msg("error", m, <<>>, <<>>)
Ping           == Msg("ping", <<>>, <<>>, <<>>)

\* the newline that ends a record on the wire
Newline == Msg(NL, <<>>, <<>>, <<>>)

\* line 164 without the + '\n'
EncodeUnterminated(rec) == << rec >>

\* line 164: encoder.encode(JSON.stringify(data) + '\n'), one chunk holding
\* the text of the object and then the newline
Encode(rec) == << rec, Newline >>

\* The stream after rec is handed to writer.write.  The retry loops of lines
\* 250-277 and 287-323 are unbounded and repeat one status record; a status
\* record equal to the last record of the stream is kept once.
Written(s, rec) ==
  IF rec.type = "status" /\ s # <<>> /\ s[Len(s)] = rec
  THEN s ELSE Append(s, rec)

\* await writeChunk(rec), then go on at next: the write is settled at once
\* when the caller reads the stream, and stays pending when nobody does
WriteChunk(rec, next) ==
  /\ stream' = Written(stream, rec)
  /\ cont' = next
  /\ pc' = IF response = "stream" THEN next ELSE "awaitWrite"

InitHandler ==
  /\ req \in Requests
  /\ pc = "start"
  /\ cont = "none"
  /\ response = "none"
  /\ stream = <<>>
  /\ pingInterval = FALSE
  /\ pings = 0
  /\ closeCalls = 0
  /\ chunks = <<>>
  /\ i = 0
  /\ summaries = <<>>
  /\ attempt = 0
  /\ delays = <<>>
  /\ outcomes = <<>>
  /\ reply = <<>>
  /\ ret = <<>>
  /\ error = "none"
  /\ combinedSummary = <<>>
  /\ finalSummary = <<>>
  /\ summaryChunks = <<>>
  /\ secondarySummaries = <<>>
  /\ saved = "none"
  /\ analysed = <<>>
  /\ lastWait = 0
  /\ condenseCalls = 0
  /\ pacing = 0

----------------------------------------------------------------------------
(* The handler before the response is returned *)

\* lines 186-189 alone: the session check, with no check of the credential
\* or of the content
ValidationFailureSessionOnly(r) ==
  IF ~r.session THEN "Not authenticated" ELSE "none"

\* lines 186-211: session, credential and content checks
ValidationFailure(r) ==
  IF ~r.session THEN "Not authenticated"
  ELSE IF ~r.apiKey THEN "OpenAI API key is not configured"
  ELSE IF r.content = <<>> THEN "No content provided"
  ELSE IF r.type = "pdf" /\ trim(r.content) = <<>>
       THEN "PDF appears to be empty or unreadable"
  ELSE "none"

Validate ==
  /\ pc = "start"
  /\ error' = ValidationFailure(req)
  /\ pc' = IF ValidationFailure(req) # "none" THEN "initialCatch"
           ELSE "validating"
  /\ UNCHANGED <<analysed, lastWait, req, cont, response, stream, pingInterval, pings, closeCalls,
                 chunks, i, summaries, attempt, delays, outcomes, reply, ret,
                 combinedSummary, finalSummary, summaryChunks,
                 secondarySummaries, saved>>
  /\ UNCHANGED <<condenseCalls, pacing>>
  /\ UNCHANGED <<cvars, kvars, uvars, dvars, avars, svars>>

\* lines 214-229, validateContract (lines 29-56): the document is judged a
\* contract of sale, judged not to be one, or the call fails
ValidateContractReturns ==
  /\ pc = "validating"
  /\ \E verdict \in {"valid", "invalid", "failed"} :
       IF verdict = "invalid"
       THEN /\ WriteChunk(ErrorMsg("Invalid document"), "earlyClose")
            /\ error' = "Invalid document"
       ELSE /\ pc' = IF verdict = "valid" THEN "launch" ELSE "initialCatch"
            /\ error' = IF verdict = "valid" THEN error
                        ELSE "Failed to validate document"
            /\ UNCHANGED <<stream, cont>>
  /\ UNCHANGED <<analysed, lastWait, req, response, pingInterval, pings, closeCalls,
                 chunks, i, summaries, attempt, delays, outcomes, reply, ret,
                 combinedSummary, finalSummary, summaryChunks,
                 secondarySummaries, saved>>
  /\ UNCHANGED <<condenseCalls, pacing>>
  /\ UNCHANGED <<cvars, kvars, uvars, dvars, avars, svars>>

\* lines 433-438: the catch of the handler's own try block
InitialCatch ==
  /\ pc = "initialCatch"
  /\ WriteChunk(ErrorMsg(error), "catchClose")
  /\ UNCHANGED <<analysed, lastWait, req, response, pingInterval, pings, closeCalls,
                 chunks, i, summaries, attempt, delays, outcomes, reply, ret,
                 error, combinedSummary, finalSummary, summaryChunks,
                 secondarySummaries, saved>>
  /\ UNCHANGED <<condenseCalls, pacing>>
  /\ UNCHANGED <<cvars, kvars, uvars, dvars, avars, svars>>

\* lines 232-247 and 431: the background task runs up to its first await
\* (startPing, splitIntoChunks, the first status write), then the handler
\* returns the response and the caller starts to read the stream
Launch ==
  /\ pc = "launch"
  /\ pingInterval' = TRUE
  /\ chunks' = splitIntoChunks(req.content)
  /\ stream' = Written(stream, Status(<<"Processing chunks",
                                          Len(splitIntoChunks(req.content))>>))
  /\ response' = "stream"
  /\ pc' = "awaitWrite"
  /\ cont' = "loop"
  /\ summaries' = <<>>
  /\ i' = 0
  /\ UNCHANGED <<analysed, lastWait, req, pings, closeCalls, attempt, delays, outcomes, reply,
                 ret, error, combinedSummary, finalSummary, summaryChunks,
                 secondarySummaries, saved>>
  /\ UNCHANGED <<condenseCalls, pacing>>
  /\ UNCHANGED <<cvars, kvars, uvars, dvars, avars, svars>>

\* the awaited write is settled: the caller has taken the record
WriteSettled ==
  /\ pc = "awaitWrite"
  /\ response = "stream"
  /\ pc' = cont
  /\ UNCHANGED <<analysed, lastWait, req, cont, response, stream, pingInterval, pings, closeCalls,
                 chunks, i, summaries, attempt, delays, outcomes, reply, ret,
                 error, combinedSummary, finalSummary, summaryChunks,
                 secondarySummaries, saved>>
  /\ UNCHANGED <<condenseCalls, pacing>>
  /\ UNCHANGED <<cvars, kvars, uvars, dvars, avars, svars>>

----------------------------------------------------------------------------
(* The chunk loop, lines 249-277, and getSummaryForChunk, lines 107-147 *)

Delay(ms, at) == [ms |-> ms, at |-> at]

\* line 143: Math.pow(2, attempt) * 1000
BackoffMsDoubled(a) == 2^(a + 1) * 1000

BackoffMs(a) == 2^a * 1000

\* lines 138-142: the failure is thrown to the caller
Throws(e, a) == ~IsTPM(e) /\ a = retries - 1

\* line 108, attempt++: every failure that is not thrown uses up an attempt
NextAttemptSparingRateLimit(e, a) == IF IsTPM(e) THEN a ELSE a + 1

NextAttempt(e, a) == a + 1

\* lines 136-143: the delays taken after a failure that is not thrown
DelaysAfter(e, a) ==
  (IF IsTPM(e) THEN << Delay(10000, "cooldown") >> ELSE <<>>)
    \o << Delay(BackoffMs(a), "backoff") >>

\* line 250, then lines 279-283 when the loop is over
ChunkLoop ==
  /\ pc = "loop"
  /\ IF i < Len(chunks)
     THEN /\ pc' = "attempt"
          /\ attempt' = 0
          /\ delays' = <<>>
          /\ outcomes' = <<>>
          /\ lastWait' = 0
          /\ UNCHANGED <<stream, cont, combinedSummary, finalSummary>>
     ELSE /\ combinedSummary' = join(summaries, BlankLine)
          /\ finalSummary' = join(summaries, BlankLine)
          /\ WriteChunk(Status(<<"Generating final analysis">>), "condense")
          /\ UNCHANGED <<attempt, delays, outcomes, lastWait>>
  /\ UNCHANGED <<analysed, req, response, pingInterval, pings, closeCalls,
                 chunks, i, summaries, reply, ret, error, summaryChunks,
                 secondarySummaries, saved>>
  /\ UNCHANGED <<condenseCalls, pacing>>
  /\ UNCHANGED <<cvars, kvars, uvars, dvars, avars, svars>>

\* lines 110-113 and 293-295 with the delay before every call
PacingMsEveryCall(k) == 3000

\* lines 110-113 (chunkIndex > 0) and 293-295 (i > 0): the pacing delay
\* before the call for the chunk or part of index k
PacingMs(k) == IF k > 0 THEN 3000 ELSE 0

\* lines 108-118: the pacing delay, then the completion call is issued
AttemptBegin ==
  /\ pc = "attempt"
  /\ attempt < retries
  /\ delays' = IF PacingMs(i) > 0
               THEN Append(delays, Delay(PacingMs(i), "pacing")) ELSE delays
  /\ pacing' = PacingMs(i)
  /\ pc' = "summarizing"
  /\ UNCHANGED <<analysed, lastWait, req, cont, response, stream, pingInterval, pings, closeCalls,
                 chunks, i, summaries, attempt, outcomes, reply, ret, error,
                 combinedSummary, finalSummary, summaryChunks,
                 secondarySummaries, saved>>
  /\ UNCHANGED condenseCalls
  /\ UNCHANGED <<cvars, kvars, uvars, dvars, avars, svars>>

\* the abort timer, in milliseconds, that the code arms around the completion
\* call pending at position p, 0 when it arms none: document validation
\* (lines 29-56) and condensation (lines 298-313) arm none, chunk
\* summarization (lines 115-116) and final analysis (lines 328-329) arm 60 s
AbortAfterMs(p) ==
  IF p \in {"summarizing", "analysis"} THEN 60000 ELSE 0

\* how the call pending at position p can fail: it is aborted only where a
\* timer is armed
CallFailures(p) ==
  IF AbortAfterMs(p) > 0 THEN Failures ELSE Failures \ {"timeout"}

\* lines 118-135: the completion call answers
SummaryCallSucceeds ==
  /\ pc = "summarizing"
  /\ \E content \in Replies :
       /\ reply' = content
       /\ ret' = content
  /\ outcomes' = Append(outcomes, "ok")
  /\ pc' = "returned"
  /\ UNCHANGED <<analysed, lastWait, req, cont, response, stream, pingInterval, pings, closeCalls,
                 chunks, i, summaries, attempt, delays, error,
                 combinedSummary, finalSummary, summaryChunks,
                 secondarySummaries, saved>>
  /\ pacing' = 0
  /\ UNCHANGED condenseCalls
  /\ UNCHANGED <<cvars, kvars, uvars, dvars, avars, svars>>

\* lines 136-146: the completion call fails (or is aborted after 60 s)
SummaryCallFails ==
  /\ pc = "summarizing"
  /\ \E e \in CallFailures(pc) :
       /\ outcomes' = Append(outcomes, e)
       /\ IF Throws(e, attempt)
          THEN /\ error' = e
               /\ pc' = "threw"
               /\ UNCHANGED <<delays, attempt, ret>>
          ELSE /\ delays' = delays \o DelaysAfter(e, attempt)
               /\ attempt' = NextAttempt(e, attempt)
               /\ pc' = IF NextAttempt(e, attempt) < retries
                        THEN "attempt" ELSE "returned"
               /\ ret' = IF NextAttempt(e, attempt) < retries
                         THEN ret ELSE <<>>
               /\ error' = error
  /\ UNCHANGED <<analysed, lastWait, req, cont, response, stream, pingInterval, pings, closeCalls,
                 chunks, i, summaries, reply,
                 combinedSummary, finalSummary, summaryChunks,
                 secondarySummaries, saved>>
  /\ pacing' = 0
  /\ UNCHANGED condenseCalls
  /\ UNCHANGED <<cvars, kvars, uvars, dvars, avars, svars>>

\* the locals of a getSummaryForChunk call are gone once it is over
CallOver ==
  /\ attempt' = 0
  /\ delays' = <<>>
  /\ outcomes' = <<>>
  /\ reply' = <<>>
  /\ ret' = <<>>

\* line 254 keeping only a summary that is not empty
pushNonEmpty(arr, summary) ==
  IF summary = <<>> THEN arr ELSE Append(arr, summary)

\* line 254: summaries.push(summary)
push(arr, summary) == Append(arr, summary)

\* lines 253-259: the summary is kept and the progress event written
ChunkDone ==
  /\ pc = "returned"
  /\ summaries' = push(summaries, ret)
  /\ WriteChunk(Progress(i + 1, Len(chunks)), "loop")
  /\ i' = i + 1
  /\ CallOver
  /\ UNCHANGED <<analysed, lastWait, req, response, pingInterval, pings, closeCalls, chunks,
                 error, combinedSummary, finalSummary, summaryChunks,
                 secondarySummaries, saved>>
  /\ UNCHANGED <<condenseCalls, pacing>>
  /\ UNCHANGED <<cvars, kvars, uvars, dvars, avars, svars>>

\* lines 262-273: the status event that announces the retry of chunk i
RetryNotice(e, k) ==
  Status(IF IsTPM(e) THEN <<"Rate limit reached", k + 1>>
         ELSE <<"Retrying chunk", k + 1>>)

\* lines 267 and 273 with the wait of line 267 for every error
RetryDelayMsCooldown(e) == 10000

\* lines 267 and 273: the wait before the retry
RetryDelayMs(e) == IF IsTPM(e) THEN 10000 ELSE 1000

\* line 275 without the i--: the loop's i++ moves on to the next chunk
RetryIndexSkipping(k) == k + 1

\* line 275, i--, then the i++ of the loop: the index stays where it was
RetryIndex(k) == (k - 1) + 1

\* lines 260-276: the retry notice, the wait, and i--
ChunkFailed ==
  /\ pc = "threw"
  /\ WriteChunk(RetryNotice(error, i), "loop")
  /\ lastWait' = RetryDelayMs(error)
  /\ i' = RetryIndex(i)
  /\ error' = "none"
  /\ CallOver
  /\ UNCHANGED <<analysed, req, response, pingInterval, pings, closeCalls,
                 chunks, summaries, combinedSummary, finalSummary,
                 summaryChunks, secondarySummaries, saved>>
  /\ UNCHANGED <<condenseCalls, pacing>>
  /\ UNCHANGED <<cvars, kvars, uvars, dvars, avars, svars>>

----------------------------------------------------------------------------
(* Condensation, final analysis, persistence: lines 283-411 *)

\* line 283 with >= in the place of >
NeedsCondensingFromThreshold(t) == estimateTokens(t) >= CONDENSE_TOKENS

\* line 283: estimateTokens(combinedSummary) > 60000
NeedsCondensing(t) == estimateTokens(t) > CONDENSE_TOKENS

\* lines 283-286
Condense ==
  /\ pc = "condense"
  /\ IF NeedsCondensing(combinedSummary)
     THEN /\ summaryChunks' = splitIntoChunks(combinedSummary)
          /\ secondarySummaries' = <<>>
          /\ i' = 0
          /\ pc' = "condenseLoop"
     ELSE /\ pc' = "analysis"
          /\ UNCHANGED <<summaryChunks, secondarySummaries, i>>
  /\ UNCHANGED <<analysed, lastWait, req, cont, response, stream, pingInterval, pings, closeCalls,
                 chunks, summaries, attempt, delays, outcomes, reply, ret,
                 error, combinedSummary, finalSummary, saved>>
  /\ UNCHANGED <<condenseCalls, pacing>>
  /\ UNCHANGED <<cvars, kvars, uvars, dvars, avars, svars>>

\* lines 287-312 (the status record, the pacing delay, the call issued), and
\* line 325 when the loop is over
CondenseLoop ==
  /\ pc = "condenseLoop"
  /\ IF i < Len(summaryChunks)
     THEN /\ WriteChunk(Status(<<"Condensing part", i + 1, Len(summaryChunks)>>),
                        "condensing")
          /\ condenseCalls' = IF condenseCalls < retries + 1
                               THEN condenseCalls + 1 ELSE condenseCalls
          /\ pacing' = PacingMs(i)
          /\ UNCHANGED finalSummary
     ELSE /\ finalSummary' = join(secondarySummaries, BlankLine)
          /\ pc' = "analysis"
          /\ UNCHANGED <<stream, cont, condenseCalls, pacing>>
  /\ UNCHANGED <<analysed, lastWait, req, response, pingInterval, pings, closeCalls, chunks, i,
                 summaries, attempt, delays, outcomes, reply, ret, error,
                 combinedSummary, summaryChunks, secondarySummaries, saved>>
  /\ UNCHANGED <<cvars, kvars, uvars, dvars, avars, svars>>

\* lines 318-319 without the i--: the loop's i++ moves on to the next part
CondenseRetryIndexSkipping(k) == k + 1

\* lines 318-319, i-- and continue, then the i++ of the loop: the index
\* stays where it was
CondenseRetryIndex(k) == (k - 1) + 1

\* lines 298-322: the condensation call answers or fails; it has no abort
\* timer, so it is never aborted; after a rate-limit failure the same part
\* is tried again (i--, continue)
CondenseCallReturns ==
  /\ pc = "condensing"
  /\ \/ \E content \in Replies :
          /\ secondarySummaries' = Append(secondarySummaries, content)
          /\ i' = i + 1
          /\ pc' = "condenseLoop"
          /\ error' = error
          /\ condenseCalls' = 0
     \/ \E e \in CallFailures(pc) :
          /\ pc' = IF IsTPM(e) THEN "condenseLoop" ELSE "catch"
          /\ error' = IF IsTPM(e) THEN error ELSE e
          /\ condenseCalls' = IF IsTPM(e) THEN condenseCalls ELSE 0
          /\ i' = IF IsTPM(e) THEN CondenseRetryIndex(i) ELSE i
          /\ UNCHANGED secondarySummaries
  /\ pacing' = 0
  /\ UNCHANGED <<analysed, lastWait, req, cont, response, stream, pingInterval, pings, closeCalls,
                 chunks, summaries, attempt, delays, outcomes, reply, ret,
                 combinedSummary, finalSummary, summaryChunks, saved>>
  /\ UNCHANGED <<cvars, kvars, uvars, dvars, avars, svars>>

\* what the final analysis call may answer with: no content, text that is
\* not JSON, JSON without the three arrays, or a well-formed analysis
AnalysisContents == {"null", "notjson", "badshape", "valid"}

\* lines 350-363 and 408-411: the failure the answer is turned into
AnalysisFailure(content) ==
  IF content = "null" THEN "Failed to generate analysis"
  ELSE IF content \in {"notjson", "badshape"}
       THEN "Failed to parse analysis response"
  ELSE "none"

\* lines 328-370: the final analysis call answers or fails (or is aborted);
\* a well-formed analysis is written as the complete event
AnalysisCallReturns ==
  /\ pc = "analysis"
  /\ \/ \E content \in AnalysisContents :
          /\ analysed' = Append(analysed, content)
          /\ IF AnalysisFailure(content) = "none"
             THEN /\ WriteChunk(Complete(combinedSummary), "persist")
                  /\ error' = error
             ELSE /\ error' = AnalysisFailure(content)
                  /\ pc' = "catch"
                  /\ UNCHANGED <<stream, cont>>
     \/ \E e \in CallFailures(pc) :
          /\ analysed' = Append(analysed, e)
          /\ error' = e
          /\ pc' = "catch"
          /\ UNCHANGED <<stream, cont>>
  /\ UNCHANGED <<lastWait, req, response, pingInterval, pings, closeCalls,
                 chunks, i, summaries, attempt, delays, outcomes, reply, ret,
                 combinedSummary, finalSummary, summaryChunks,
                 secondarySummaries, saved>>
  /\ UNCHANGED <<condenseCalls, pacing>>
  /\ UNCHANGED <<cvars, kvars, uvars, dvars, avars, svars>>

SaveOutcomes == {"saved", "lookupFailed", "userCreateFailed", "contractCreateFailed"}

\* lines 403-406: a database failure is logged and goes no further
AfterSavePropagating(o) == IF o = "saved" THEN "finally" ELSE "catch"

\* a database failure that ends the task before its finally block
AfterSaveLeavingOpen(o) == IF o = "saved" THEN "finally" ELSE "done"

AfterSave(o) == "finally"

\* lines 373-406: user lookup, user creation, contract creation
Persist ==
  /\ pc = "persist"
  /\ \E o \in SaveOutcomes :
       /\ saved' = o
       /\ pc' = AfterSave(o)
       /\ error' = IF AfterSave(o) = "catch" THEN "Database error" ELSE error
  /\ UNCHANGED <<analysed, lastWait, req, cont, response, stream, pingInterval, pings, closeCalls,
                 chunks, i, summaries, attempt, delays, outcomes, reply, ret,
                 combinedSummary, finalSummary, summaryChunks,
                 secondarySummaries>>
  /\ UNCHANGED <<condenseCalls, pacing>>
  /\ UNCHANGED <<cvars, kvars, uvars, dvars, avars, svars>>

\* lines 413-420: the catch of the background task
Catch ==
  /\ pc = "catch"
  /\ WriteChunk(ErrorMsg(error), "finally")
  /\ UNCHANGED <<analysed, lastWait, req, response, pingInterval, pings, closeCalls, chunks, i,
                 summaries, attempt, delays, outcomes, reply, ret, error,
                 combinedSummary, finalSummary, summaryChunks,
                 secondarySummaries, saved>>
  /\ UNCHANGED <<condenseCalls, pacing>>
  /\ UNCHANGED <<cvars, kvars, uvars, dvars, avars, svars>>

\* line 422 left out: the timer is as it was
clearIntervalOmitted(active) == active

\* line 422, clearInterval(pingInterval): the timer is no longer active
clearInterval(active) == FALSE

\* writer.close(): in the finally of the background task after
\* clearInterval (lines 421-428), after the error record of a rejected
\* document (lines 221-228) and in the handler's catch (lines 439-450),
\* where the response is returned next
Close ==
  /\ pc \in {"finally", "earlyClose", "catchClose"}
  /\ pingInterval' = IF pc = "finally" THEN clearInterval(pingInterval)
                     ELSE pingInterval
  /\ closeCalls' = closeCalls + 1
  /\ response' = IF pc = "finally" THEN response ELSE "stream"
  /\ pc' = IF pc = "finally" THEN "done" ELSE "responded"
  /\ UNCHANGED <<analysed, lastWait, req, cont, stream, pings, chunks, i, summaries, attempt,
                 delays, outcomes, reply, ret, error, combinedSummary,
                 finalSummary, summaryChunks, secondarySummaries, saved>>
  /\ UNCHANGED <<condenseCalls, pacing>>
  /\ UNCHANGED <<cvars, kvars, uvars, dvars, avars, svars>>

\* lines 174-183: a tick of the ping timer; a write to a closed writer is
\* rejected, and the callback then clears the timer
PingTick ==
  /\ pingInterval
  /\ pings < MaxPings
  /\ pings' = pings + 1
  /\ IF closeCalls > 0
     THEN pingInterval' = FALSE /\ UNCHANGED stream
     ELSE stream' = Append(stream, Ping) /\ UNCHANGED pingInterval
  /\ UNCHANGED <<analysed, lastWait, req, pc, cont, response, closeCalls, chunks, i, summaries,
                 attempt, delays, outcomes, reply, ret, error, combinedSummary,
                 finalSummary, summaryChunks, secondarySummaries, saved>>
  /\ UNCHANGED <<condenseCalls, pacing>>
  /\ UNCHANGED <<cvars, kvars, uvars, dvars, avars, svars>>

----------------------------------------------------------------------------
(* The client's processStream: src/app/page.tsx, lines 130-204.  The body  *)
(* is a sequence of bytes; "0A" is the newline, "C3" and "A9" are the two  *)
(* bytes of one character outside ASCII, and "x" is any ASCII byte.        *)

\* the JSON text of a record, as bytes: with or without a two-byte character
RecordTexts == { <<"x">>, <<"C3", "A9">>, <<"x", "C3", "A9">> }

RECURSIVE WireOf(_)
WireOf(recs) ==
  IF recs = <<>> THEN <<>> ELSE Head(recs) \o <<"0A">> \o WireOf(Tail(recs))

\* the bodies the server can send: whole records, each ended by a newline
Wires == {WireOf(recs) : recs \in UNION {[1..n -> RecordTexts] : n \in 1..MaxRecords}}

\* new TextDecoder().decode(value), from byte k on: a decoder made for this
\* one read, so a two-byte character whose bytes are not both in value
\* comes out as U+FFFD for each byte that is there
RECURSIVE DecodeFrom(_, _)
DecodeFrom(value, k) ==
  IF k > Len(value) THEN <<>>
  ELSE IF value[k] = "C3"
       THEN IF k < Len(value) /\ value[k + 1] = "A9"
            THEN << "U+00E9" >> \o DecodeFrom(value, k + 2)
            ELSE << "U+FFFD" >> \o DecodeFrom(value, k + 1)
  ELSE IF value[k] = "A9" THEN << "U+FFFD" >> \o DecodeFrom(value, k + 1)
  ELSE IF value[k] = "0A" THEN << NL >> \o DecodeFrom(value, k + 1)
  ELSE << value[k] >> \o DecodeFrom(value, k + 1)

decode(value) == DecodeFrom(value, 1)

\* buffer.split('\n'): piece holds the characters since the last newline
RECURSIVE SplitLines(_, _)
SplitLines(s, piece) ==
  IF s = <<>> THEN << piece >>
  ELSE IF Head(s) = NL THEN << piece >> \o SplitLines(Tail(s), <<>>)
  ELSE SplitLines(Tail(s), Append(piece, Head(s)))

\* lines 156-160: the lines that are parsed, those that are not blank; the
\* record parsed from a line is told by the line's characters
ParsedLines(ls) == SelectSeq(ls, LAMBDA line : trim(line) # <<>>)

\* lines 153-154 applied to a buffer: the whole lines, and what is kept
WholeLines(buf) ==
  LET ls == SplitLines(buf, <<>>) IN SubSeq(ls, 1, Len(ls) - 1)

KeptPiece(buf) ==
  LET ls == SplitLines(buf, <<>>) IN ls[Len(ls)]

IdleClient ==
  /\ wire = <<>>
  /\ fed = 0
  /\ buffer = <<>>
  /\ parsed = <<>>
  /\ kpc = "idle"

\* lines 131-145: the reader is taken, the buffer is empty
BodyDrawn ==
  /\ wire \in Wires
  /\ fed = 0
  /\ buffer = <<>>
  /\ parsed = <<>>
  /\ kpc = "reading"

\* lines 148-190: reader.read yields the next n bytes, cut wherever the
\* transport cut them; they are decoded, appended to the buffer, and the
\* whole lines of the buffer are parsed
ReaderRead ==
  /\ kpc = "reading"
  /\ fed < Len(wire)
  /\ \E n \in 1..(Len(wire) - fed) :
       LET value == SubSeq(wire, fed + 1, fed + n)
           buf   == buffer \o decode(value)
       IN  /\ fed' = fed + n
           /\ buffer' = KeptPiece(buf)
           /\ parsed' = parsed \o ParsedLines(WholeLines(buf))
  /\ UNCHANGED <<wire, kpc>>
  /\ UNCHANGED <<cvars, hvars, uvars, dvars, avars, svars>>

\* line 150: reader.read yields done, and the loop is left
ReaderDone ==
  /\ kpc = "reading"
  /\ fed = Len(wire)
  /\ kpc' = "done"
  /\ UNCHANGED <<wire, fed, buffer, parsed>>
  /\ UNCHANGED <<cvars, hvars, uvars, dvars, avars, svars>>

NextClient == ReaderRead \/ ReaderDone

----------------------------------------------------------------------------
(* The upload handler: src/pages/api/upload.ts, lines 126-283, from the    *)
(* chunks of the extracted text to the response.                           *)

\* how an analysis call stands: not issued, pending, answered with an
\* analysis object, answered with JSON that parses to null, or failed (the
\* call rejected or its content is not JSON)
CallStates == {"unissued", "pending", "analysis", "null", "failed"}

\* lines 214-217 returning an empty analysis in the place of throwing
SettledSwallowing(o) == IF o = "pending" THEN "pending" ELSE "fulfilled"

\* lines 139-218: the promise of the async function mapped over a chunk; the
\* catch of lines 214-217 rethrows, so a failed call rejects it
Settled(o) ==
  IF o = "pending" THEN "pending"
  ELSE IF o = "failed" THEN "rejected" ELSE "fulfilled"

\* Promise.all of line 139: rejected as soon as one promise is, fulfilled
\* when all are
PromiseAll(cs) ==
  IF \E k \in DOMAIN cs : Settled(cs[k]) = "rejected" THEN "rejected"
  ELSE IF \A k \in DOMAIN cs : Settled(cs[k]) = "fulfilled" THEN "fulfilled"
  ELSE "pending"

\* lines 222-254: the merge reads a.keyInsights of every analysis, which
\* throws for one that is null
MergeThrows(cs) == \E k \in DOMAIN cs : cs[k] = "null"

IdleUpload ==
  /\ upPc = "idle"
  /\ chunkCalls = <<>>
  /\ upStatus = 0
  /\ upBody = "none"
  /\ contractCreated = FALSE

\* lines 128-135: the text is cut into chunks of maxChunkSize characters
ChunksCut ==
  /\ upPc = "start"
  /\ chunkCalls \in UNION {[1..n -> {"unissued"}] : n \in 1..MaxUploadChunks}
  /\ upStatus = 0
  /\ upBody = "none"
  /\ contractCreated = FALSE

\* lines 139-142: chunks.map runs every async function up to its await, so
\* every call is issued before any answer is looked at
UploadIssueAll ==
  /\ upPc = "start"
  /\ chunkCalls' = [k \in DOMAIN chunkCalls |-> "pending"]
  /\ upPc' = "awaiting"
  /\ UNCHANGED <<upStatus, upBody, contractCreated>>
  /\ UNCHANGED <<cvars, hvars, kvars, dvars, avars, svars>>

\* lines 142-217: a call answers or fails, whatever became of the others
\* and of the handler
UploadCallSettles ==
  /\ \E k \in DOMAIN chunkCalls :
       /\ chunkCalls[k] = "pending"
       /\ \E o \in {"analysis", "null", "failed"} :
            chunkCalls' = [chunkCalls EXCEPT ![k] = o]
  /\ UNCHANGED <<upPc, upStatus, upBody, contractCreated>>
  /\ UNCHANGED <<cvars, hvars, kvars, dvars, avars, svars>>

\* line 139 and lines 278-282: Promise.all is rejected, the catch answers
\* 500 with the error message
UploadRejected ==
  /\ upPc = "awaiting"
  /\ PromiseAll(chunkCalls) = "rejected"
  /\ upStatus' = 500
  /\ upBody' = "error"
  /\ upPc' = "sent"
  /\ UNCHANGED <<chunkCalls, contractCreated>>
  /\ UNCHANGED <<cvars, hvars, kvars, dvars, avars, svars>>

\* lines 220-254: Promise.all is fulfilled and the analyses are merged; a
\* merge that throws is answered by the catch
UploadMerge ==
  /\ upPc = "awaiting"
  /\ PromiseAll(chunkCalls) = "fulfilled"
  /\ IF MergeThrows(chunkCalls)
     THEN upStatus' = 500 /\ upBody' = "error" /\ upPc' = "sent"
     ELSE upPc' = "saving" /\ UNCHANGED <<upStatus, upBody>>
  /\ UNCHANGED <<chunkCalls, contractCreated>>
  /\ UNCHANGED <<cvars, hvars, kvars, dvars, avars, svars>>

\* lines 257-282: the record is created and 200 is answered with the merged
\* analysis, or the create fails and the catch answers 500
UploadSave ==
  /\ upPc = "saving"
  /\ \E stored \in BOOLEAN :
       /\ contractCreated' = stored
       /\ upStatus' = IF stored THEN 200 ELSE 500
       /\ upBody' = IF stored THEN "analysis" ELSE "error"
  /\ upPc' = "sent"
  /\ UNCHANGED chunkCalls
  /\ UNCHANGED <<cvars, hvars, kvars, dvars, avars, svars>>

NextUpload ==
  \/ UploadIssueAll
  \/ UploadCallSettles
  \/ UploadRejected
  \/ UploadMerge
  \/ UploadSave

----------------------------------------------------------------------------
(* The DELETE contract handler: src/app/api/contracts/[id]/route.ts, 7-44  *)

ContractIds == {"c1", "c2"}

Users == {"u1", "u2"}

\* the tables the handler can meet: some of the ids, each owned by a user
Tables == UNION {[ids -> Users] : ids \in SUBSET ContractIds}

\* line 27 letting every session user through
IsNotOwnerNever(userId, sub) == FALSE

\* line 27: contract.userId !== session.user.sub
IsNotOwner(userId, sub) == userId # sub

\* lines 32-34: the table without the record of the id
Without(table, id) == [c \in (DOMAIN table) \ {id} |-> table[c]]

IdleDelete ==
  /\ delPc = "idle"
  /\ delSession = "none"
  /\ delId = "c1"
  /\ contracts = << >>
  /\ delStatus = 0
  /\ delThrown = FALSE

\* lines 7-10: a request for an id, with or without a session, on some table
DeleteRequested ==
  /\ delPc = "start"
  /\ delSession \in Users \cup {"none"}
  /\ delId \in ContractIds
  /\ contracts \in Tables
  /\ delStatus = 0
  /\ delThrown = FALSE

\* lines 12-15: without a session 401 is answered
DeleteGetSession ==
  /\ delPc = "start"
  /\ IF delSession = "none"
     THEN delStatus' = 401 /\ delPc' = "sent"
     ELSE delPc' = "find" /\ UNCHANGED delStatus
  /\ UNCHANGED <<delSession, delId, contracts, delThrown>>
  /\ UNCHANGED <<cvars, hvars, kvars, uvars, avars, svars>>

\* lines 18-29 and 37-43: findUnique answers or throws; 404 for no record,
\* 403 for a record of another user, 500 from the catch
DeleteFindUnique ==
  /\ delPc = "find"
  /\ \E thrown \in BOOLEAN :
       /\ delThrown' = thrown
       /\ IF thrown THEN delStatus' = 500 /\ delPc' = "sent"
          ELSE IF delId \notin DOMAIN contracts
               THEN delStatus' = 404 /\ delPc' = "sent"
          ELSE IF IsNotOwner(contracts[delId], delSession)
               THEN delStatus' = 403 /\ delPc' = "sent"
          ELSE delPc' = "delete" /\ UNCHANGED delStatus
  /\ UNCHANGED <<delSession, delId, contracts>>
  /\ UNCHANGED <<cvars, hvars, kvars, uvars, avars, svars>>

\* lines 32-43: the record is deleted and success answered, or the delete
\* throws and the catch answers 500
DeleteContract ==
  /\ delPc = "delete"
  /\ \E thrown \in BOOLEAN :
       /\ delThrown' = thrown
       /\ contracts' = IF thrown THEN contracts ELSE Without(contracts, delId)
       /\ delStatus' = IF thrown THEN 500 ELSE 200
  /\ delPc' = "sent"
  /\ UNCHANGED <<delSession, delId>>
  /\ UNCHANGED <<cvars, hvars, kvars, uvars, avars, svars>>

NextDelete == DeleteGetSession \/ DeleteFindUnique \/ DeleteContract

----------------------------------------------------------------------------
(* The client's attemptAnalysis: src/unnamed/part_004, lines 114-144       *)

\* how an attempt can fail: fetch rejects, the response is not ok, or
\* processStream throws
AttemptFailures == {"network", "http", "stream"}

\* line 116 with the exponent attempt in the place of attempt - 1
backoffDelayFromAttempt(k) == MinOf({1000 * 2^k, 8000})

\* line 116: Math.min(1000 * Math.pow(2, attempt - 1), 8000)
backoffDelay(k) == MinOf({1000 * 2^(k - 1), 8000})

IdleAttempt ==
  /\ atPc = "idle"
  /\ attemptNo = 0
  /\ requests = 0
  /\ waits = <<>>
  /\ attemptLog = <<>>

\* line 114: attemptAnalysis(text), attempt = 1
AttemptStarted ==
  /\ atPc = "start"
  /\ attemptNo = 1
  /\ requests = 0
  /\ waits = <<>>
  /\ attemptLog = <<>>

\* lines 118-130: the request is sent; fetch rejects, or the response is
\* not ok, or the stream is handed to processStream
AttemptFetch ==
  /\ atPc = "start"
  /\ requests' = requests + 1
  /\ \E o \in {"network", "http", "ok"} :
       IF o = "ok"
       THEN atPc' = "streaming" /\ UNCHANGED attemptLog
       ELSE atPc' = "caught" /\ attemptLog' = Append(attemptLog, o)
  /\ UNCHANGED <<attemptNo, waits>>
  /\ UNCHANGED <<cvars, hvars, kvars, uvars, dvars, svars>>

\* lines 130-131: processStream reads the stream to the end, or throws
AttemptStream ==
  /\ atPc = "streaming"
  /\ \E o \in {"stream", "ok"} :
       /\ attemptLog' = Append(attemptLog, o)
       /\ atPc' = IF o = "ok" THEN "done" ELSE "caught"
  /\ UNCHANGED <<attemptNo, requests, waits>>
  /\ UNCHANGED <<cvars, hvars, kvars, uvars, dvars, svars>>

\* lines 132-143: the catch waits and calls attemptAnalysis with
\* attempt + 1, or rethrows
AttemptCaught ==
  /\ atPc = "caught"
  /\ IF attemptNo < maxAttempts
     THEN /\ waits' = Append(waits, backoffDelay(attemptNo))
          /\ attemptNo' = attemptNo + 1
          /\ atPc' = "start"
     ELSE /\ atPc' = "thrown"
          /\ UNCHANGED <<waits, attemptNo>>
  /\ UNCHANGED <<requests, attemptLog>>
  /\ UNCHANGED <<cvars, hvars, kvars, uvars, dvars, svars>>

NextAttemptAnalysis == AttemptFetch \/ AttemptStream \/ AttemptCaught

----------------------------------------------------------------------------
(* OpenAIStream: src/unnamed/part_008, lines 12-56, with all the callbacks *)
(* given.                                                                  *)

\* chunk.choices[0]?.delta?.content: a token, or "" for a chunk without one
Contents == {"a", "b", ""}

Sources == UNION {[1..n -> Contents] : n \in 0..MaxTokens}

\* a callback invoked with an argument
Call(name, arg) == [name |-> name, arg |-> arg]

IdleStream ==
  /\ osPc = "idle"
  /\ source = <<>>
  /\ srcPos = 0
  /\ completion = <<>>
  /\ controller = "readable"
  /\ enqueued = <<>>
  /\ called = <<>>
  /\ closeLog = <<>>

\* lines 19-24: counter and completion are set, start runs and calls
\* onStart
StreamStarted ==
  /\ osPc = "iterating"
  /\ source \in Sources
  /\ srcPos = 0
  /\ completion = <<>>
  /\ controller = "readable"
  /\ enqueued = <<>>
  /\ called = << Call("onStart", <<>>) >>
  /\ closeLog = <<>>

\* lines 27-39: the next chunk; one without content is passed over, the
\* content of another is added to completion, given to onToken and enqueued
StreamChunk ==
  /\ osPc = "iterating"
  /\ srcPos < Len(source)
  /\ srcPos' = srcPos + 1
  /\ IF source[srcPos + 1] = ""
     THEN UNCHANGED <<completion, called, enqueued>>
     ELSE /\ completion' = Append(completion, source[srcPos + 1])
          /\ called' = Append(called, Call("onToken", source[srcPos + 1]))
          /\ enqueued' = Append(enqueued, source[srcPos + 1])
  /\ UNCHANGED <<osPc, source, controller, closeLog>>
  /\ UNCHANGED <<cvars, hvars, kvars, uvars, dvars, avars>>

\* lines 41-47: the iteration is over; onCompletion and onFinal are called
StreamEnds ==
  /\ osPc = "iterating"
  /\ srcPos = Len(source)
  /\ called' = called \o << Call("onCompletion", completion),
                            Call("onFinal", completion) >>
  /\ osPc' = "finally"
  /\ UNCHANGED <<source, srcPos, completion, controller, enqueued, closeLog>>
  /\ UNCHANGED <<cvars, hvars, kvars, uvars, dvars, avars>>

\* lines 48-50: the iteration throws, at any chunk or at its end; the catch
\* puts the controller into the errored state
StreamFails ==
  /\ osPc = "iterating"
  /\ controller' = "errored"
  /\ osPc' = "finally"
  /\ UNCHANGED <<source, srcPos, completion, enqueued, called, closeLog>>
  /\ UNCHANGED <<cvars, hvars, kvars, uvars, dvars, avars>>

\* lines 51-53: the finally invokes controller.close(), which closes a
\* readable controller and throws on any other
StreamFinally ==
  /\ osPc = "finally"
  /\ closeLog' = Append(closeLog, controller)
  /\ controller' = IF controller = "readable" THEN "closed" ELSE controller
  /\ osPc' = "done"
  /\ UNCHANGED <<source, srcPos, completion, enqueued, called>>
  /\ UNCHANGED <<cvars, hvars, kvars, uvars, dvars, avars>>

NextStream == StreamChunk \/ StreamEnds \/ StreamFails \/ StreamFinally

----------------------------------------------------------------------------
(* The handler's specification *)

\* a step of the handler or of its background task
PipelineStep ==
  \/ Validate
  \/ ValidateContractReturns
  \/ InitialCatch
  \/ Launch
  \/ WriteSettled
  \/ ChunkLoop
  \/ AttemptBegin
  \/ SummaryCallSucceeds
  \/ SummaryCallFails
  \/ ChunkDone
  \/ ChunkFailed
  \/ Condense
  \/ CondenseLoop
  \/ CondenseCallReturns
  \/ AnalysisCallReturns
  \/ Persist
  \/ Catch
  \/ Close

Init ==
  InitHandler /\ IdleChunk /\ IdleClient /\ IdleUpload /\ IdleDelete
  /\ IdleAttempt /\ IdleStream

\* the handler left alone, as it is in the chunker's specification
IdleHandler ==
  /\ InitHandler
  /\ req = [session |-> FALSE, apiKey |-> FALSE, type |-> "text",
            content |-> <<>>]

InitChunk ==
  TextDrawn /\ IdleHandler /\ IdleClient /\ IdleUpload /\ IdleDelete
  /\ IdleAttempt /\ IdleStream

SpecChunk == InitChunk /\ [][NextChunk]_vars

InitClient ==
  BodyDrawn /\ IdleHandler /\ IdleChunk /\ IdleUpload /\ IdleDelete
  /\ IdleAttempt /\ IdleStream

SpecClient == InitClient /\ [][NextClient]_vars

InitUpload ==
  ChunksCut /\ IdleHandler /\ IdleChunk /\ IdleClient /\ IdleDelete
  /\ IdleAttempt /\ IdleStream

SpecUpload == InitUpload /\ [][NextUpload]_vars

InitDelete ==
  DeleteRequested /\ IdleHandler /\ IdleChunk /\ IdleClient /\ IdleUpload
  /\ IdleAttempt /\ IdleStream

SpecDelete == InitDelete /\ [][NextDelete]_vars

InitAttempt ==
  AttemptStarted /\ IdleHandler /\ IdleChunk /\ IdleClient /\ IdleUpload
  /\ IdleDelete /\ IdleStream

SpecAttempt == InitAttempt /\ [][NextAttemptAnalysis]_vars

InitStream ==
  StreamStarted /\ IdleHandler /\ IdleChunk /\ IdleClient /\ IdleUpload
  /\ IdleDelete /\ IdleAttempt

SpecStream == InitStream /\ [][NextStream]_vars

Next == PipelineStep \/ PingTick

Spec == Init /\ [][Next]_vars

\* the event loop runs the background task whenever it can take a step
FairSpec == Spec /\ WF_vars(PipelineStep)

----------------------------------------------------------------------------
(* Properties of the handler, under Spec and FairSpec *)

Count(s, types) == Cardinality({k \in 1..Len(s) : s[k].type \in types})

Terminal == {"complete", "error"}

\* C1: once the response that carries the stream is returned, the handler
\* eventually has written a complete or an error event and closed the
\* stream, whatever the completion calls answer.
C1_EventuallyTerminalAndClosed ==
  (response = "stream" /\ pc # "responded")
    ~> (Count(stream, Terminal) > 0 /\ closeCalls > 0)

\* C2: no record follows the complete or error record on the stream.
C2_TerminalRecordIsLast ==
  \A k \in 1..Len(stream) : stream[k].type \in Terminal => k = Len(stream)

\* a failure has left the pipeline and its catch block has run
FailureReported ==
  error # "none" /\ pc \notin {"threw", "initialCatch", "catch"}

\* C3: at most one terminal event is written, and a failure that has left
\* the pipeline is written as exactly one error event, which carries it,
\* with no complete event beside it.
C3_OneTerminalEvent ==
  /\ Count(stream, Terminal) <= 1
  /\ FailureReported =>
       /\ Count(stream, {"error"}) = 1
       /\ Count(stream, {"complete"}) = 0
       /\ \E k \in 1..Len(stream) : stream[k] = ErrorMsg(error)

\* C3 witness: the final analysis answered with text that is not a
\* well-formed analysis, and the request ended with the error event.
C3_Witness ==
  /\ pc = "done"
  /\ error = "Failed to parse analysis response"
  /\ stream[Len(stream)] = ErrorMsg(error)
  /\ Len(summaries) = 2

\* C4: when the handler and its background task can take no further step,
\* writer.close has been invoked exactly once, and at no time more than once.
C4_CloseExactlyOnce ==
  /\ closeCalls <= 1
  /\ ~ENABLED PipelineStep => closeCalls = 1

\* the calls of the current getSummaryForChunk invocation failed with
\* errors other than rate-limit ones, and then one succeeded
TransientThenOk(o) ==
  /\ o # <<>>
  /\ o[Len(o)] = "ok"
  /\ \A k \in 1..(Len(o) - 1) :
       o[k] \in Failures /\ ~IsTPM(o[k]) /\ ~IsFatal(o[k])

\* 1 s, 2 s, ..., 2^(n-1) s
Backoffs(n) == [k \in 1..n |-> 2^(k - 1) * 1000]

Millis(ds) == [k \in 1..Len(ds) |-> ds[k].ms]

\* C10 as stated: after N-1 transient failures and a success,
\* getSummaryForChunk returns the success and the delays it performed are
\* exactly 1 s, 2 s, ..., 2^(N-2) s.
C10_DelaysAreBackoffsOnly ==
  (pc = "returned" /\ TransientThenOk(outcomes)) =>
    /\ ret = reply
    /\ Millis(delays) = Backoffs(Len(outcomes) - 1)

\* C10 as amended: the same, the 3 s pacing delays (taken before each
\* attempt of a chunk of index > 0, and of no other chunk) set aside.
C10_BackoffsBesidePacing ==
  (pc = "returned" /\ TransientThenOk(outcomes)) =>
    /\ ret = reply
    /\ Millis(SelectSeq(delays, LAMBDA d : d.at # "pacing"))
         = Backoffs(Len(outcomes) - 1)
    /\ Millis(SelectSeq(delays, LAMBDA d : d.at = "pacing"))
         = [k \in 1..(IF i > 0 THEN Len(outcomes) ELSE 0) |-> 3000]

\* C10 witness: the third attempt for the second chunk succeeded after two
\* failures, one of them a timeout.
C10_Witness ==
  /\ pc = "returned"
  /\ outcomes = <<"transient", "timeout", "ok">>
  /\ i = 1
  /\ ret = Para("s")

----------------------------------------------------------------------------
(* Properties of getSummaryForChunk's retry loop, under Spec *)

\* how the completion call that has just been answered ended
LastOutcome(o) == o[Len(o)]

\* C11: after a completion call failed with a rate-limit error and another
\* attempt is to follow, getSummaryForChunk waits the 10 s cool-down and
\* nothing else before that attempt (the pacing delay, which belongs to the
\* attempt itself, is not counted here), whatever the attempt index.
C11_CooldownIsTheOnlyWait ==
  [][(pc = "summarizing" /\ pc' = "attempt" /\ IsTPM(LastOutcome(outcomes')))
       => Millis(delays') = Millis(delays) \o <<10000>>]_vars

\* C12: a completion call that failed with a fatal error is the only call of
\* its getSummaryForChunk invocation: the failure is thrown at once, with no
\* delay taken and no further call.
C12_FatalIsNotRetried ==
  [][(pc = "summarizing" /\ pc' # "summarizing"
        /\ IsFatal(LastOutcome(outcomes')))
       => (pc' = "threw" /\ error' = "fatal" /\ delays' = delays
             /\ Len(outcomes') = 1)]_vars

\* C13: getSummaryForChunk returns a value only when a completion call
\* succeeded, and when its last attempt has failed it throws that failure.
C13_ExhaustionThrows ==
  /\ pc = "returned" => LastOutcome(outcomes) = "ok"
  /\ (pc \in {"returned", "threw"} /\ Len(outcomes) = retries
        /\ LastOutcome(outcomes) # "ok")
       => (pc = "threw" /\ error = LastOutcome(outcomes))

\* completion calls issued so far by the current getSummaryForChunk call
CallsIssued == Len(outcomes) + (IF pc = "summarizing" THEN 1 ELSE 0)

\* C14: one getSummaryForChunk invocation issues at most `retries`
\* completion calls, and every failed call, rate-limited or not, has used up
\* one attempt.
C14_AtMostRetriesCalls ==
  /\ CallsIssued <= retries
  /\ pc \in {"attempt", "summarizing"} =>
       /\ attempt = Len(outcomes)
       /\ \A k \in 1..Len(outcomes) : outcomes[k] \in Failures

\* C14 witness: three calls were issued, every one of them rate-limited, and
\* the invocation is over.
C14_Witness ==
  /\ pc = "returned"
  /\ outcomes = <<"ratelimit", "ratelimit", "ratelimit">>
  /\ attempt = retries

----------------------------------------------------------------------------
(* Properties of the orchestrator's events and summaries, under Spec *)

\* the records of the given types, in stream order
Events(s, types) == SelectSeq(s, LAMBDA rec : rec.type \in types)

AfterChunkLoop ==
  {"condense", "condenseLoop", "condensing", "analysis", "persist", "catch",
   "finally", "done"}

\* the chunk loop is over and the summaries are being, or have been, combined
Combining ==
  \/ pc \in AfterChunkLoop
  \/ pc = "awaitWrite" /\ cont \in AfterChunkLoop

\* C15: the progress events are one per summarized chunk, in chunk order,
\* the k-th carrying (k / N) * 100 (kept as the fraction 100k / N); the values
\* strictly increase; and once the summaries are combined there are N of
\* them, the last carrying 100.
C15_OneProgressPerChunk ==
  LET ps == Events(stream, {"progress"})
  IN  /\ Len(ps) = Len(summaries)
      /\ \A k \in 1..Len(ps) :
           /\ ps[k].message = <<"Processed chunk", k, Len(chunks)>>
           /\ ps[k].progress[1] * Len(chunks) = 100 * k * ps[k].progress[2]
      /\ \A k \in 1..(Len(ps) - 1) :
           ps[k].progress[1] * ps[k + 1].progress[2]
             < ps[k + 1].progress[1] * ps[k].progress[2]
      /\ Combining =>
           /\ Len(ps) = Len(chunks)
           /\ ps # <<>> =>
                ps[Len(ps)].progress[1] = 100 * ps[Len(ps)].progress[2]

\* C15 witness: a document of two chunks was analysed to the end, the first
\* chunk after a retry by the orchestrator.
C15_Witness ==
  /\ pc = "done"
  /\ Len(chunks) = 2
  /\ Count(stream, {"progress"}) = 2
  /\ Count(stream, {"complete"}) = 1
  /\ \E k \in 1..Len(stream) : stream[k] = Status(<<"Retrying chunk", 1>>)

\* a document of one chunk was analysed with no chunk retried by the
\* orchestrator, and the complete event is written
OneChunkSuccess ==
  /\ Len(chunks) = 1
  /\ Count(stream, {"complete"}) = 1
  /\ \A k \in 1..Len(stream) : stream[k] # Status(<<"Retrying chunk", 1>>)

\* C16 as stated: the events other than pings are then the status reporting
\* one chunk, the progress event with 100, and the complete event, which
\* carries the chunk's summary.
C16_StatusProgressComplete ==
  OneChunkSuccess =>
    Events(stream, {"status", "progress", "complete", "error"})
      = << Status(<<"Processing chunks", 1>>), Progress(1, 1),
           Complete(summaries[1]) >>

\* C16 as amended: between the progress event and the complete event the
\* status event that announces the final analysis is written.
C16_WithFinalAnalysisStatus ==
  OneChunkSuccess =>
    LET ev == Events(stream, {"status", "progress", "complete", "error"})
    IN  /\ Len(ev) = 4
        /\ ev[1] = Status(<<"Processing chunks", 1>>)
        /\ ev[2].type = "progress" /\ ev[2].progress = <<100, 1>>
        /\ ev[3] = Status(<<"Generating final analysis">>)
        /\ ev[4].type = "complete" /\ ev[4].summary = summaries[1]

\* C16 witness: a one-chunk document was analysed, saved and the stream
\* closed, pings among the events.
C16_Witness ==
  /\ pc = "done"
  /\ OneChunkSuccess
  /\ summaries = << Para("s") >>
  /\ saved = "saved"
  /\ Count(stream, {"ping"}) > 0

\* the user message of the final analysis call (line 340), which is in
\* flight while pc = "analysis"
AnalysisUserMessage == finalSummary

\* a condensation call has been announced on the stream
CondensationAnnounced ==
  \E k \in 1..Len(stream) :
    stream[k].type = "status" /\ stream[k].message[1] = "Condensing part"

\* C17: the final analysis call is given the condensed pieces joined with a
\* blank line, one per piece of the combined summary, when the combined
\* summary is estimated over the threshold; otherwise, the threshold itself
\* included, it is given the combined summary and no condensation call was
\* made.
C17_FinalSummaryIsAnalysed ==
  pc = "analysis" =>
    /\ combinedSummary = join(summaries, BlankLine)
    /\ IF estimateTokens(combinedSummary) > CONDENSE_TOKENS
       THEN /\ AnalysisUserMessage = join(secondarySummaries, BlankLine)
            /\ summaryChunks = splitIntoChunks(combinedSummary)
            /\ Len(secondarySummaries) = Len(summaryChunks)
       ELSE /\ AnalysisUserMessage = combinedSummary
            /\ secondarySummaries = <<>>
            /\ ~CondensationAnnounced

\* C17 witness: the combined summary was over the threshold and its two
\* pieces were condensed to a text that differs from it.
C17_Witness ==
  /\ pc = "analysis"
  /\ Len(secondarySummaries) = 2
  /\ AnalysisUserMessage # combinedSummary
  /\ CondensationAnnounced

\* a combined summary estimated at exactly the threshold goes to the final
\* analysis as it is
C17_AtThreshold ==
  /\ pc = "analysis"
  /\ estimateTokens(combinedSummary) = CONDENSE_TOKENS
  /\ AnalysisUserMessage = combinedSummary

\* C18: the summary field of the complete event is the Final Summary, the
\* text that was given to the final analysis call.
C18_CompleteCarriesFinalSummary ==
  \A k \in 1..Len(stream) :
    stream[k].type = "complete" => stream[k].summary = AnalysisUserMessage

\* the final analysis answered with text that is not JSON, or with JSON that
\* lacks one of the three arrays
ParseFailed ==
  analysed # <<>> /\ analysed[Len(analysed)] \in {"notjson", "badshape"}

\* C19: a complete event is written only for an answer that parsed and holds
\* the three arrays; after any other text the analysis call is not repeated,
\* and the request ends with one error event, which tells of the parse
\* failure and is the last record written before the stream is closed.
C19_ParseFailureEndsInOneError ==
  /\ Count(stream, {"complete"}) > 0 => analysed = << "valid" >>
  /\ ParseFailed => Len(analysed) = 1 /\ Count(stream, {"complete"}) = 0
  /\ (ParseFailed /\ closeCalls > 0) =>
       /\ Count(stream, {"error"}) = 1
       /\ stream[Len(stream)] = ErrorMsg("Failed to parse analysis response")

\* C20: the database save is attempted only once the complete event is
\* written; whichever of its steps fails, no error event is written, and the
\* task goes on to its finally block, where the stream is closed.
C20_SaveFailureIsSwallowed ==
  /\ (pc = "persist" \/ saved # "none") =>
       /\ Count(stream, {"complete"}) = 1
       /\ Count(stream, {"error"}) = 0
       /\ error = "none"
  /\ saved # "none" =>
       \/ pc = "finally" /\ closeCalls = 0
       \/ pc = "done" /\ closeCalls = 1

\* C20 witness: the contract could not be created, and the stream is closed
\* with the complete event on it.
C20_Witness ==
  /\ saved = "contractCreateFailed"
  /\ pc = "done"
  /\ closeCalls = 1
  /\ Count(stream, {"complete"}) = 1

----------------------------------------------------------------------------
(* Properties of the handler's validation and scheduling, under Spec *)

\* where the handler stands when it has made no completion call: before and
\* in its checks, and in the catch of its own try block
BeforeAnyCall ==
  {"start", "initialCatch", "awaitWrite", "catchClose", "responded"}

\* C21: with empty content or no API credential the handler makes no
\* completion call (document validation included), never starts the ping
\* timer, writes no status or progress event, and writes exactly one error
\* event.
C21_RejectedBeforeAnyWork ==
  (~req.apiKey \/ req.content = <<>>) =>
    /\ pc \in BeforeAnyCall
    /\ outcomes = <<>> /\ analysed = <<>> /\ chunks = <<>>
    /\ ~pingInterval /\ pings = 0
    /\ Count(stream, {"status", "progress", "complete", "ping"}) = 0
    /\ Count(stream, {"error"}) = (IF pc \in {"start", "initialCatch"} THEN 0 ELSE 1)
    /\ pc \notin {"start", "initialCatch"} => stream = << ErrorMsg(error) >>

\* C21 witness: a signed-in caller sent a document while no credential was
\* configured, and the error event is written.
C21_Witness ==
  /\ req.session /\ ~req.apiKey /\ req.content # <<>>
  /\ stream = << ErrorMsg("OpenAI API key is not configured") >>

\* the completion calls in flight: the handler and its background task
\* await each call where it is issued, and the ping timer issues none
InFlight ==
  IF pc = "validating" THEN {<<"validation">>}
  ELSE IF pc = "summarizing" THEN {<<"chunk", i>>}
  ELSE IF pc = "condensing" THEN {<<"condensation", i>>}
  ELSE IF pc = "analysis" THEN {<<"analysis">>}
  ELSE {}

\* C22: at most one completion call is in flight; the call for a chunk is in
\* flight only when every chunk before it, and no other, has its summary
\* appended; a condensation or final analysis call only when every chunk has
\* its summary and no getSummaryForChunk invocation is under way.
C22_OneCallInFlight ==
  /\ Cardinality(InFlight) <= 1
  /\ \A k \in 0..MaxChunks :
       <<"chunk", k>> \in InFlight => Len(summaries) = k /\ k < Len(chunks)
  /\ (\E c \in InFlight : c[1] \in {"condensation", "analysis"}) =>
       /\ Len(summaries) = Len(chunks)
       /\ outcomes = <<>> /\ attempt = 0
  /\ \A k \in 0..Len(summaryChunks) :
       <<"condensation", k>> \in InFlight =>
         Len(secondarySummaries) = k /\ k < Len(summaryChunks)

\* C22 witness: the call for the second chunk is in flight after the first
\* chunk needed a retry by the orchestrator.
C22_Witness ==
  /\ InFlight = {<<"chunk", 1>>}
  /\ Len(summaries) = 1
  /\ \E k \in 1..Len(stream) : stream[k] = RetryNotice("transient", 0)

----------------------------------------------------------------------------
(* The bytes of the stream *)

\* what the readable side yields: the chunks handed to writer.write, each
\* whole, in the order of the writes
RECURSIVE Bytes(_)
Bytes(s) == IF s = <<>> THEN <<>> ELSE Encode(Head(s)) \o Bytes(Tail(s))

C25_EveryCallHasADeadline ==
  InFlight # {} => AbortAfterMs(pc) > 0

\* C26: a condensation call is retried as a chunk summarization call is: a
\* failure that is not a rate limit ends the request only once the attempt
\* cap is reached, and no part is given more calls than the cap, rate-limited
\* or not.
C26_CondensationRetriedAsChunks ==
  [][ /\ (pc = "condensing" /\ pc' = "catch" /\ error' = "transient")
          => condenseCalls >= retries
      /\ condenseCalls' <= retries ]_vars

\* C27: a transient or rate-limit failure of the first final analysis call
\* does not end the request: the error path is not entered on it.
C27_AnalysisFailureIsRetried ==
  (Len(analysed) = 1 /\ analysed[1] \in {"transient", "ratelimit"})
    => pc \notin {"catch", "finally", "done"}

\* C28: summaries changes only when getSummaryForChunk has returned for
\* chunk i, with i summaries kept so far, and then by having the value
\* returned appended; so at the combining step there is one entry per chunk,
\* in chunk order, and the combined summary is the entries joined with a
\* blank line.
C28_OneSummaryPerChunk ==
  [][ /\ summaries' # summaries =>
           (pc = "returned" /\ Len(summaries) = i /\ i < Len(chunks))
      /\ (pc = "returned" /\ pc' # "returned") =>
           (summaries' = Append(summaries, ret) /\ i' = i + 1)
      /\ (pc = "loop" /\ pc' \notin {"loop", "attempt"}) =>
           /\ Len(summaries) = Len(chunks)
           /\ summaries' = summaries
           /\ combinedSummary' = join(summaries, BlankLine) ]_vars

\* C28 witness: two chunks are combined, the first after a retry by the
\* orchestrator, and their summaries differ (one of them is empty).
C28_Witness ==
  /\ Combining
  /\ Len(chunks) = 2 /\ Len(summaries) = 2
  /\ summaries[1] # summaries[2]
  /\ combinedSummary = join(summaries, BlankLine)
  /\ \E k \in 1..Len(stream) : stream[k] = RetryNotice("transient", 0)

\* the chunk loop, from the first chunk to the combining step
InChunkLoop ==
  \/ pc \in {"loop", "attempt", "summarizing", "returned", "threw"}
  \/ pc = "awaitWrite" /\ cont = "loop"

\* C29: when getSummaryForChunk has thrown for chunk i, the orchestrator
\* writes the one status event announcing the retry, waits 10 s for a 'TPM'
\* error and 1 s for any other, and goes round the loop with the same i, no
\* summary added and nothing counted; i advances only with a summary kept
\* for the chunk left, and the final analysis is reached only with a summary
\* for every chunk.
C29_ThrowMeansRetrySameChunk ==
  [][ /\ (pc = "threw" /\ pc' # "threw") =>
           /\ stream' = Written(stream, RetryNotice(error, i))
           /\ lastWait' = (IF IsTPM(error) THEN 10000 ELSE 1000)
           /\ i' = i /\ summaries' = summaries
           /\ attempt' = 0 /\ outcomes' = <<>>
           /\ pc' = "loop" \/ (pc' = "awaitWrite" /\ cont' = "loop")
      /\ (InChunkLoop /\ i' # i) =>
           (i' = i + 1 /\ Len(summaries') = i')
      /\ pc' = "analysis" => Len(summaries') = Len(chunks') ]_vars

\* C29 witness: getSummaryForChunk threw for the second chunk; the retry is
\* announced, the 1 s wait is due, and the loop is at the same chunk.
C29_Witness ==
  /\ InChunkLoop /\ pc # "threw"
  /\ lastWait = 1000
  /\ i = 1 /\ Len(summaries) = 1 /\ Len(chunks) = 2
  /\ stream[Len(stream)] = RetryNotice("transient", 1)

\* where the request is: the position it goes on at, when a write is awaited
Position == IF pc = "awaitWrite" THEN cont ELSE pc

\* the phases of a request, in the order of the code: validate (lines
\* 185-229), chunk (246), summarize chunks (249-277), combine (279-281),
\* condense (283-326), final analysis (327-346), validate analysis and
\* complete (348-370), persistence (373-406); every way out is the last
Phase ==
  IF Position \in {"start", "validating"} THEN 1
  ELSE IF Position = "launch" THEN 2
  ELSE IF Position \in {"loop", "attempt", "summarizing", "returned", "threw"}
       THEN 3
  ELSE IF Position = "condense" THEN 4
  ELSE IF Position \in {"condenseLoop", "condensing"} THEN 5
  ELSE IF Position = "analysis" THEN 6
  ELSE IF Position = "persist" THEN 7
  ELSE 8

\* C30: a request never returns to an earlier phase; the final analysis call
\* is issued at most once, and only when every chunk has its summary and
\* every part to condense, if any, has been condensed.
C30_PhasesInOrder ==
  [][ /\ Phase' >= Phase
      /\ Len(analysed') <= 1
      /\ (Phase' = 6 /\ Phase # 6) => analysed = <<>>
      /\ Phase' = 6 =>
           /\ Len(summaries') = Len(chunks')
           /\ Len(secondarySummaries') = Len(summaryChunks') ]_vars

\* C30 witness: the request is complete after two chunks, a condensation
\* of at least one part, and one final analysis call.
C30_Witness ==
  /\ Phase = 7
  /\ Len(chunks) = 2 /\ Len(summaries) = 2
  /\ Len(summaryChunks) >= 1
  /\ Len(secondarySummaries) = Len(summaryChunks)
  /\ analysed = <<"valid">>

\* C31: before every chunk summarization call and every condensation call
\* for index > 0, first attempt or retry, after a success or a failure, a
\* 3 s pacing delay is taken; none is taken for index 0.
C31_PacingBeforeEveryLaterCall ==
  [][ /\ (pc # "summarizing" /\ pc' = "summarizing") =>
           /\ pacing' = (IF i > 0 THEN 3000 ELSE 0)
           /\ delays' = (IF i > 0 THEN Append(delays, Delay(3000, "pacing"))
                         ELSE delays)
      /\ (Position # "condensing" /\ Position' = "condensing") =>
           pacing' = (IF i' > 0 THEN 3000 ELSE 0) ]_vars

\* C31 witness: the call for the second chunk is pending a second time,
\* after a failed first attempt, and a pacing delay preceded each of the two.
C31_Witness ==
  /\ pc = "summarizing" /\ i = 1 /\ attempt = 1
  /\ outcomes = <<"transient">>
  /\ pacing = 3000
  /\ Len(SelectSeq(delays, LAMBDA d : d.at = "pacing")) = 2

\* the second part is condensed after a rate-limited call for it: the
\* pacing delay is taken again
C31_CondensationRetryPaced ==
  /\ pc = "condensing" /\ i = 1 /\ condenseCalls = 2
  /\ pacing = 3000

\* C32: on every failure path before the stream is handed over (a rejected
\* request, a failed validation call, a document judged not to be a
\* contract) the handler eventually returns a response: the awaited write
\* of the error event and the close complete.
C32_PreStreamFailureIsAnswered ==
  (pc = "awaitWrite" /\ cont \in {"earlyClose", "catchClose"})
    ~> (pc = "responded")

\* the validation call has judged the document not to be a contract of
\* sale, or has failed
ValidationRefused ==
  error \in {"Invalid document", "Failed to validate document"}

\* what a refused document leaves untouched: no chunking, no completion call
\* for a chunk, no ping, no persistence, and at most the one error event
RefusedDoesNoWork ==
  ValidationRefused =>
    /\ chunks = <<>> /\ summaries = <<>> /\ outcomes = <<>>
    /\ analysed = <<>>
    /\ ~pingInterval /\ pings = 0
    /\ saved = "none"
    /\ Count(stream, {"error"}) <= 1
    /\ \A k \in 1..Len(stream) : stream[k] = ErrorMsg(error)

\* C33: a document refused by the validation call ends the request with
\* exactly one error event, which carries the reason, and the stream
\* closed, with no chunking, summarization call, ping or persistence.
C33_RefusedEndsInOneError ==
  /\ []RefusedDoesNoWork
  /\ ValidationRefused ~>
       (closeCalls = 1 /\ stream = << ErrorMsg(error) >>)

\* C34: once writer.close has been invoked the ping timer is inactive, and
\* from then on no write is attempted: no record is added and the timer's
\* callback does not run.
C34_ClosedMeansQuiet ==
  [][ /\ closeCalls' > 0 => ~pingInterval'
      /\ closeCalls > 0 => (stream' = stream /\ pings' = pings) ]_vars

\* C34 witness: the stream is closed after the timer has ticked.
C34_Witness ==
  /\ closeCalls = 1 /\ pc = "done"
  /\ pings > 0 /\ Count(stream, {"ping"}) > 0
  /\ ~pingInterval

----------------------------------------------------------------------------
(* Properties of the client's processStream, under SpecClient *)

\* the records of the body when it is decoded and parsed in one piece
RecordsOf(w) == ParsedLines(WholeLines(decode(w)))

\* C24: however the body is cut into reads, the records parsed once it has
\* ended are the records of the body, each parsed once and in order.
C24_SameRecordsForEveryCut ==
  kpc = "done" => parsed = RecordsOf(wire)

----------------------------------------------------------------------------
(* Properties of the upload handler, under SpecUpload *)

\* C35: every chunk call is issued before any is answered; a response is
\* all or nothing: 200 with the merged analysis only when every call was
\* answered with an analysis and the record was created, and otherwise 500
\* with the error alone, whenever a call failed or the record was not
\* created.
C35_UploadAllOrNothing ==
  /\ (\E k \in DOMAIN chunkCalls : chunkCalls[k] # "unissued")
       => (\A k \in DOMAIN chunkCalls : chunkCalls[k] # "unissued")
  /\ upStatus \in {0, 200, 500}
  /\ upStatus = 200 =>
       /\ \A k \in DOMAIN chunkCalls : chunkCalls[k] = "analysis"
       /\ contractCreated
       /\ upBody = "analysis"
  /\ upStatus = 500 => (upBody = "error" /\ ~contractCreated)
  /\ (upStatus # 0 /\ (\E k \in DOMAIN chunkCalls : chunkCalls[k] = "failed"))
       => upStatus = 500

\* C35 witness: of three calls issued together one was answered, one failed
\* and one is still pending when 500 is answered.
C35_Witness ==
  /\ upStatus = 500
  /\ \E j, k, l \in DOMAIN chunkCalls :
       /\ chunkCalls[j] = "analysis"
       /\ chunkCalls[k] = "failed"
       /\ chunkCalls[l] = "pending"

----------------------------------------------------------------------------
(* Properties of the DELETE contract handler, under SpecDelete *)

\* C36: the table changes only by losing the record of params.id, and only
\* when there is a session whose user owns that record; without a session
\* the answer is 401, for an unknown id 404, for a record of another user
\* 403 (500 only when a database call has thrown), and none of these
\* answers comes with a record deleted.
C36_DeleteOnlyOwnRecord ==
  [][ /\ contracts' # contracts =>
           /\ delSession # "none"
           /\ delId \in DOMAIN contracts
           /\ contracts[delId] = delSession
           /\ contracts' = Without(contracts, delId)
           /\ delStatus' = 200
      /\ delStatus' # delStatus =>
           /\ delStatus = 0
           /\ delStatus' = 401 <=> delSession = "none"
           /\ delStatus' = 404 <=>
                (delSession # "none" /\ ~delThrown'
                   /\ delId \notin DOMAIN contracts)
           /\ delStatus' = 403 <=>
                (delSession # "none" /\ ~delThrown'
                   /\ delId \in DOMAIN contracts
                   /\ contracts[delId] # delSession)
           /\ delStatus' \in {401, 403, 404, 500} => contracts' = contracts
           /\ delStatus' = 500 <=> delThrown' ]_vars

\* C36 witness: a user has deleted a contract of theirs and the other
\* user's contract is still there.
C36_Witness ==
  /\ delStatus = 200
  /\ delId \notin DOMAIN contracts
  /\ \E c \in DOMAIN contracts : contracts[c] # delSession

\* a request for another user's contract was answered 403
C36_Refused ==
  /\ delStatus = 403
  /\ delId \in DOMAIN contracts /\ contracts[delId] # delSession

----------------------------------------------------------------------------
(* Properties of the client's attemptAnalysis, under SpecAttempt *)

\* C37: at most 3 requests are sent; the wait after the failed attempt k < 3
\* is min(1000 * 2^(k-1), 8000) ms, that is 1000 then 2000; the error is
\* rethrown after the third failure and not before; and an attempt whose
\* stream was processed to the end is the last.
C37_AtMostThreeRequests ==
  /\ requests <= 3
  /\ requests = (IF atPc = "start" THEN attemptNo - 1 ELSE attemptNo)
  /\ Len(waits) = attemptNo - 1
  /\ waits = SubSeq(<<1000, 2000>>, 1, Len(waits))
  /\ \A k \in 1..Len(attemptLog) :
       attemptLog[k] = "ok" => (k = Len(attemptLog) /\ atPc = "done")
  /\ atPc = "done" => attemptLog[Len(attemptLog)] = "ok"
  /\ atPc = "thrown" =>
       /\ requests = 3
       /\ Len(attemptLog) = 3
       /\ \A k \in 1..3 : attemptLog[k] \in AttemptFailures
  /\ atPc = "done" => ~ENABLED NextAttemptAnalysis

\* C37 witness: the third request succeeded after two failures and the
\* two waits.
C37_Witness ==
  /\ atPc = "done"
  /\ requests = 3
  /\ waits = <<1000, 2000>>

\* the error is rethrown after three failed requests
C37_Rethrown ==
  atPc = "thrown" /\ requests = 3

----------------------------------------------------------------------------
(* Properties of OpenAIStream, under SpecStream *)

\* the callbacks of the given name that were invoked, in order
CallsOf(name) == SelectSeq(called, LAMBDA c : c.name = name)

\* C38: controller.close is invoked exactly once on every path, and never
\* on a controller that was put into the errored state; onCompletion and
\* onFinal are not invoked when the iteration failed, and are invoked once
\* each, after the last onToken and with the concatenation of the tokens,
\* when it succeeded.
C38_CloseOnceNeverOnErrored ==
  /\ Len(closeLog) <= 1
  /\ osPc = "done" => Len(closeLog) = 1
  /\ \A k \in 1..Len(closeLog) : closeLog[k] # "errored"
  /\ controller = "errored" =>
       (CallsOf("onCompletion") = <<>> /\ CallsOf("onFinal") = <<>>)
  /\ (osPc \in {"finally", "done"} /\ controller # "errored") =>
       /\ CallsOf("onCompletion") = << Call("onCompletion", completion) >>
       /\ CallsOf("onFinal") = << Call("onFinal", completion) >>
       /\ called[Len(called)].name = "onFinal"
       /\ called[Len(called) - 1].name = "onCompletion"
       /\ completion = enqueued

====
